---- MODULE Spec2Model ----
(***************************************************************************)
(* A model of the pod-rebalancer operator (cxfcxf/pod-rebalancer):        *)
(*   - NodeReconciler: the node watcher that auto-creates                  *)
(*     RebalanceRequests, gated by a cooldown;                             *)
(*   - RebalanceRequestReconciler: the per-RebalanceRequest reconcile      *)
(*     loop;                                                               *)
(*   - Engine: the rebalance decision function and its batched executor.   *)
(* Time is an integer number of seconds.                                   *)
(***************************************************************************)
EXTENDS Integers, Sequences, FiniteSets, TLC

VARIABLES
    now,                \* wall clock, seconds
    \* ---- cluster / node watcher ----
    nodes,              \* cluster: node name -> "absent" | "notready" | "ready"
    queue,              \* node keys waiting for NodeReconciler.Reconcile
    knownNodes,         \* NodeReconciler.knownNodes: name -> "none" | "true" | "false"
    lastRebalanceTime,  \* NodeReconciler.lastRebalanceTime (ZeroTime = time.Time{})
    CooldownPeriod,     \* NodeReconciler.CooldownPeriod (0 = unset)
    autoRRs,            \* RebalanceRequests created by the node watcher, in order
    nodeEvents,         \* number of cluster node events so far
    attempts,           \* history of calls of triggerRebalanceIfNeeded
    mu,                 \* NodeReconciler.mu: "free" or the key whose handler holds it
    nodesMu,            \* NodeReconciler.nodesMu: "free" or the key whose handler holds it
    handler,            \* per node key: where its running Reconcile call stands
    initialEvent,       \* per node key: its first event after startup is still "pending"
                        \* (for a node the bootstrap list "listed" or "unlisted") or "done"
    \* ---- RebalanceRequest reconciler ----
    rr,                 \* the RebalanceRequest stored in the cluster (spec, labels, status)
    lastReconcile,      \* what the last Reconcile of rr did and returned
    engineCalls,        \* number of Engine.ExecuteRebalance calls made for rr
    evictionsCreated,   \* number of eviction sub-resources created for rr's ticks
    lastEngineAt,       \* time at which the last Engine call for rr returned
    \* ---- Engine, called on its own ----
    snapshot,           \* the cluster the engine's client lists: nodes, namespaces, pods
    request,            \* the spec of the RebalanceRequest handed to ExecuteRebalance
    tick                \* what the last call of ExecuteRebalance read, planned and did

lockVars == <<mu, nodesMu, handler>>
watcherVars == <<nodes, queue, knownNodes, lastRebalanceTime, CooldownPeriod,
                 autoRRs, nodeEvents, attempts, lockVars, initialEvent>>
rrVars == <<rr, lastReconcile, engineCalls, evictionsCreated, lastEngineAt>>
engineVars == <<snapshot, request, tick>>
vars == <<now, watcherVars, rrVars, engineVars>>

(***************************************************************************)
(* Bounds of the model.                                                    *)
(***************************************************************************)
MaxWatcherTime == 360       \* the watcher is explored over 6 minutes
MaxNodeEvents == 3          \* cluster node events (create / update / delete)
MaxConcurrentNodeEvents == 2 \* node events while handlers run concurrently
MaxReconcileTime == 120     \* the RR reconciler is explored over 2 minutes
MaxRuns == 2                \* Engine invocations per RebalanceRequest
MaxPods == 4                \* candidate pods in a snapshot

WatcherSteps == {120}       \* clock steps of the watcher exploration
ReconcileSteps == {30}      \* clock steps of the reconciler exploration

NodeNames == {"A", "B"}

(***************************************************************************)
(* Time helpers.                                                           *)
(***************************************************************************)
\* time.Time{} : the zero time, far in the past
ZeroTime == -1
\* a nil *metav1.Time
NilTime == -2
\* time.Since of the zero time saturates at the maximum Duration (about 292
\* years); the model holds it as the largest integer TLC represents
MaxDuration == 2147483647

Since(t) == IF t = ZeroTime THEN MaxDuration ELSE now - t

\* int32 addition of a non-negative b, wrapping in two's complement
MaxInt32 == 2147483647
Int32Add(a, b) ==
    IF a > MaxInt32 - b THEN (a - MaxInt32 - 1) + (b - MaxInt32 - 1) ELSE a + b

(***************************************************************************)
(* API objects.                                                            *)
(***************************************************************************)
\* RebalanceRequestSpec; unset fields hold Go's zero values
RebalanceRequestSpec(selector, namespaces, nodeTargets, interval, batchSize, batchInterval, dryRun) ==
    [ Selector             |-> selector,
      Namespaces           |-> namespaces,
      NodeTargets          |-> nodeTargets,
      IntervalSeconds      |-> interval,
      BatchSize            |-> batchSize,
      BatchIntervalSeconds |-> batchInterval,
      DryRun               |-> dryRun ]

\* the zero RebalanceRequestStatus of a freshly created object
EmptyStatus ==
    [ Phase            |-> "",
      LastEvictedCount |-> 0,
      TotalPodsEvicted |-> 0,
      TotalPods        |-> 0,
      RunCount         |-> 0,
      StartTime        |-> NilTime,
      LastRunTime      |-> NilTime,
      NextRunTime      |-> NilTime,
      CompletionTime   |-> NilTime,
      Message          |-> "" ]

NoLabels == [k \in {} |-> ""]

\* a nil *metav1.LabelSelector, and a matchLabels selector (Valid: whether
\* metav1.LabelSelectorAsSelector accepts it)
NilSelector == [ Set |-> FALSE, Valid |-> TRUE, MatchLabels |-> NoLabels ]
LabelSelector(valid, matchLabels) == [ Set |-> TRUE, Valid |-> valid, MatchLabels |-> matchLabels ]

Label(obj, key) == IF key \in DOMAIN obj.labels THEN obj.labels[key] ELSE ""

\* "no object": what Get finds for a key that is not in the cluster
NoRR == [ exists |-> FALSE ]

(***************************************************************************)
(* NodeReconciler: the node watcher.                                       *)
(***************************************************************************)
DefaultCooldownPeriod == 300
AutoRebalanceNamespace == "kube-system"

\* the cooldown values the operator may be started with (0 = unset)
CooldownChoices == {0, 240}

isNodeReady(state) == state = "ready"

\* cooldown := r.CooldownPeriod; if cooldown == 0 { cooldown = DefaultCooldownPeriod }
Cooldown == IF CooldownPeriod = 0 THEN DefaultCooldownPeriod ELSE CooldownPeriod

\* if time.Since(r.lastRebalanceTime) < cooldown { ... return }
InCooldown == Since(lastRebalanceTime) < Cooldown

\* a bug: the time of a successful create is not recorded
RecordedTriggerTimeStale == lastRebalanceTime
\* r.lastRebalanceTime = time.Now()
RecordedTriggerTime == now

\* the Spec of the RebalanceRequest that triggerRebalanceIfNeeded builds
AutoSpec == RebalanceRequestSpec(NilSelector, <<>>, <<>>, 0, 5, 30, FALSE)

\* the RebalanceRequest that triggerRebalanceIfNeeded builds; k numbers the
\* server-generated name suffix
NewAutoRebalanceRequest(reason, nodeName, k) ==
    [ exists    |-> TRUE,
      name      |-> "auto-rebalance-" \o ToString(k),
      namespace |-> AutoRebalanceNamespace,
      created   |-> now,
      labels    |-> ("kore.boring.io/auto-triggered" :> "true")
                    @@ ("kore.boring.io/trigger-reason" :> reason)
                    @@ ("kore.boring.io/trigger-node" :> nodeName),
      spec      |-> AutoSpec,
      status    |-> EmptyStatus ]

Attempt(reason, nodeName, outcome) ==
    [ time |-> now, reason |-> reason, node |-> nodeName, outcome |-> outcome,
      last |-> lastRebalanceTime, cooldown |-> Cooldown ]

\* a bug: the trigger time is recorded although the create call failed
triggerRebalanceIfNeededRecordsFailure(reason, nodeName, createOk) ==
    IF InCooldown
    THEN /\ attempts' = Append(attempts, Attempt(reason, nodeName, "skipped"))
         /\ UNCHANGED <<lastRebalanceTime, autoRRs>>
    ELSE /\ autoRRs' = IF createOk
                       THEN Append(autoRRs, NewAutoRebalanceRequest(reason, nodeName,
                                                                    Len(autoRRs) + 1))
                       ELSE autoRRs
         /\ lastRebalanceTime' = RecordedTriggerTime
         /\ attempts' = Append(attempts, Attempt(reason, nodeName,
                                                 IF createOk THEN "created" ELSE "failed"))

\* triggerRebalanceIfNeeded, run under r.mu; createOk is the outcome of r.Create
triggerRebalanceIfNeeded(reason, nodeName, createOk) ==
    IF InCooldown
    THEN /\ attempts' = Append(attempts, Attempt(reason, nodeName, "skipped"))
         /\ UNCHANGED <<lastRebalanceTime, autoRRs>>
    ELSE IF ~createOk
    THEN /\ attempts' = Append(attempts, Attempt(reason, nodeName, "failed"))
         /\ UNCHANGED <<lastRebalanceTime, autoRRs>>
    ELSE /\ autoRRs' = Append(autoRRs,
                              NewAutoRebalanceRequest(reason, nodeName, Len(autoRRs) + 1))
         /\ lastRebalanceTime' = RecordedTriggerTime
         /\ attempts' = Append(attempts, Attempt(reason, nodeName, "created"))

\* a bug: a node that is not Ready triggers as well
NodeReconcileAnyNewNode(n) ==
    /\ n \in queue
    /\ queue' = queue \ {n}
    /\ IF nodes[n] = "absent"
       THEN /\ knownNodes' = [knownNodes EXCEPT ![n] = "none"]
            /\ IF knownNodes[n] = "true"
               THEN \E createOk \in BOOLEAN :
                        triggerRebalanceIfNeeded("node-removed", n, createOk)
               ELSE UNCHANGED <<lastRebalanceTime, autoRRs, attempts>>
       ELSE /\ knownNodes' = [knownNodes EXCEPT ![n] = IF isNodeReady(nodes[n]) THEN "true"
                                                        ELSE "false"]
            /\ IF knownNodes[n] # "true"
               THEN \E createOk \in BOOLEAN :
                        triggerRebalanceIfNeeded("node-added", n, createOk)
               ELSE UNCHANGED <<lastRebalanceTime, autoRRs, attempts>>
    /\ initialEvent' = [initialEvent EXCEPT ![n] = "done"]
    /\ UNCHANGED <<now, nodes, CooldownPeriod, nodeEvents, lockVars, rrVars, engineVars>>

\* NodeReconciler.Reconcile for the key n. A Get that fails with an error other
\* than not-found returns the error and leaves everything as it was (the key is
\* retried), which is a stuttering step.
NodeReconcile(n) ==
    /\ n \in queue
    /\ queue' = queue \ {n}
    /\ IF nodes[n] = "absent"
       THEN \* Node was deleted
            LET wasKnown == knownNodes[n] = "true" IN
            /\ knownNodes' = [knownNodes EXCEPT ![n] = "none"]
            /\ IF wasKnown
               THEN \E createOk \in BOOLEAN :
                        triggerRebalanceIfNeeded("node-removed", n, createOk)
               ELSE UNCHANGED <<lastRebalanceTime, autoRRs, attempts>>
       ELSE LET wasKnown == knownNodes[n] = "true"
                isReady == isNodeReady(nodes[n]) IN
            /\ knownNodes' = [knownNodes EXCEPT ![n] = IF isReady THEN "true" ELSE "false"]
            /\ IF ~wasKnown /\ isReady
               THEN \E createOk \in BOOLEAN :
                        triggerRebalanceIfNeeded("node-added", n, createOk)
               ELSE UNCHANGED <<lastRebalanceTime, autoRRs, attempts>>
    /\ initialEvent' = [initialEvent EXCEPT ![n] = "done"]
    /\ UNCHANGED <<now, nodes, CooldownPeriod, nodeEvents, lockVars, rrVars, engineVars>>

\* SetupWithManager: knownNodes after the bootstrap list (listOk: the list succeeded)
BootstrapKnownNodes(cluster, listOk) ==
    [n \in NodeNames |->
        IF ~listOk \/ cluster[n] = "absent" THEN "none"
        ELSE IF isNodeReady(cluster[n]) THEN "true" ELSE "false"]

\* the informer replays every node of the cluster as a create event once the
\* controller starts; listed: the bootstrap list of SetupWithManager held the node
InitialEvents(cluster, listOk) ==
    [n \in NodeNames |->
        IF cluster[n] = "absent" THEN "done"
        ELSE IF listOk THEN "listed" ELSE "unlisted"]

\* The event filter of SetupWithManager: which cluster events enqueue the node's key
CreateFunc == TRUE
UpdateFunc(old, new) == isNodeReady(old) # isNodeReady(new)
DeleteFunc == TRUE

\* ---- the cluster's side: node events ----
NodeCreated(n) ==
    /\ nodeEvents < MaxNodeEvents
    /\ nodes[n] = "absent"
    /\ \E s \in {"ready", "notready"} : nodes' = [nodes EXCEPT ![n] = s]
    /\ queue' = IF CreateFunc THEN queue \cup {n} ELSE queue
    /\ nodeEvents' = nodeEvents + 1
    /\ UNCHANGED <<now, knownNodes, lastRebalanceTime, CooldownPeriod, autoRRs,
                   attempts, lockVars, initialEvent, rrVars, engineVars>>

NodeUpdated(n) ==
    /\ nodeEvents < MaxNodeEvents
    /\ nodes[n] # "absent"
    /\ \E s \in {"ready", "notready"} :
          /\ nodes' = [nodes EXCEPT ![n] = s]
          /\ queue' = IF UpdateFunc(nodes[n], s) THEN queue \cup {n} ELSE queue
    /\ nodeEvents' = nodeEvents + 1
    /\ UNCHANGED <<now, knownNodes, lastRebalanceTime, CooldownPeriod, autoRRs,
                   attempts, lockVars, initialEvent, rrVars, engineVars>>

NodeDeleted(n) ==
    /\ nodeEvents < MaxNodeEvents
    /\ nodes[n] # "absent"
    /\ nodes' = [nodes EXCEPT ![n] = "absent"]
    /\ queue' = IF DeleteFunc THEN queue \cup {n} ELSE queue
    /\ nodeEvents' = nodeEvents + 1
    /\ UNCHANGED <<now, knownNodes, lastRebalanceTime, CooldownPeriod, autoRRs,
                   attempts, lockVars, initialEvent, rrVars, engineVars>>

WatcherTick(d) ==
    /\ now + d <= MaxWatcherTime
    /\ now' = now + d
    /\ UNCHANGED <<watcherVars, rrVars, engineVars>>

\* no Reconcile call is running and both mutexes are free
IdleHandler == [ pc |-> "idle", found |-> FALSE, isReady |-> FALSE, wasKnown |-> FALSE ]

NoHandlerRunning ==
    /\ mu = "free"
    /\ nodesMu = "free"
    /\ handler = [n \in NodeNames |-> IdleHandler]

\* the engine is not called on its own
IdleEngine ==
    /\ snapshot = [ Nodes |-> <<>>, Namespaces |-> <<>>, Pods |-> <<>> ]
    /\ request = [ exists |-> FALSE ]
    /\ tick = [ done |-> FALSE ]

IdleRR ==
    /\ rr = NoRR
    /\ lastReconcile = [ path |-> "none", Requeue |-> FALSE, RequeueAfter |-> 0, err |-> "",
                         result |-> [ PodsEvicted |-> 0, TotalPods |-> 0, Error |-> "",
                                      Message |-> "" ],
                         written |-> FALSE ]
    /\ engineCalls = 0
    /\ evictionsCreated = 0
    /\ lastEngineAt = NilTime

InitWatcher ==
    /\ now = 0
    /\ nodes \in [NodeNames -> {"absent", "notready", "ready"}]
    /\ \E listOk \in BOOLEAN :
          /\ knownNodes = BootstrapKnownNodes(nodes, listOk)
          /\ initialEvent = InitialEvents(nodes, listOk)
    /\ queue = {n \in NodeNames : nodes[n] # "absent"}
    /\ lastRebalanceTime = ZeroTime
    /\ CooldownPeriod \in CooldownChoices
    /\ autoRRs = <<>>
    /\ nodeEvents = 0
    /\ attempts = <<>>
    /\ NoHandlerRunning
    /\ IdleRR
    /\ IdleEngine

NextWatcher ==
    \/ \E n \in NodeNames : NodeCreated(n)
    \/ \E n \in NodeNames : NodeUpdated(n)
    \/ \E n \in NodeNames : NodeDeleted(n)
    \/ \E n \in NodeNames : NodeReconcile(n)
    \/ \E d \in WatcherSteps : WatcherTick(d)

SpecWatcher == InitWatcher /\ [][NextWatcher]_vars

(***************************************************************************)
(* NodeReconciler with its Reconcile calls running concurrently for        *)
(* different keys (the work queue never runs two calls for one key): each  *)
(* call advances one lock operation or one critical section at a time.     *)
(***************************************************************************)
Goto(n, pc) ==
    IF pc = "idle" THEN [handler EXCEPT ![n] = IdleHandler] ELSE [handler EXCEPT ![n].pc = pc]

\* r.Get(ctx, req.NamespacedName, &node) for a queued key
HandlerGet(n) ==
    /\ n \in queue
    /\ handler[n].pc = "idle"
    /\ queue' = queue \ {n}
    /\ handler' = [handler EXCEPT ![n] = [ pc |-> "lockNodes",
                                           found |-> nodes[n] # "absent",
                                           isReady |-> isNodeReady(nodes[n]),
                                           wasKnown |-> FALSE ]]
    /\ UNCHANGED <<now, nodes, knownNodes, lastRebalanceTime, CooldownPeriod, autoRRs,
                   nodeEvents, attempts, mu, nodesMu, rrVars, engineVars>>
    /\ initialEvent' = [initialEvent EXCEPT ![n] = "done"]

\* r.nodesMu.Lock()
HandlerLockNodes(n) ==
    /\ handler[n].pc = "lockNodes"
    /\ nodesMu = "free"
    /\ nodesMu' = n
    /\ handler' = Goto(n, "known")
    /\ UNCHANGED <<now, nodes, queue, knownNodes, lastRebalanceTime, CooldownPeriod,
                   autoRRs, nodeEvents, attempts, mu, initialEvent, rrVars, engineVars>>

\* the critical section on knownNodes, up to r.nodesMu.Unlock(): read wasKnown,
\* delete the name or store the observed readiness, then decide on the trigger
HandlerKnown(n) ==
    /\ handler[n].pc = "known"
    /\ LET wasKnown == knownNodes[n] = "true"
           trigger == IF handler[n].found THEN ~wasKnown /\ handler[n].isReady
                      ELSE wasKnown IN
       /\ knownNodes' = [knownNodes EXCEPT ![n] =
                            IF ~handler[n].found THEN "none"
                            ELSE IF handler[n].isReady THEN "true" ELSE "false"]
       /\ handler' = IF trigger
                     THEN [handler EXCEPT ![n].wasKnown = wasKnown, ![n].pc = "lockMu"]
                     ELSE Goto(n, "idle")
    /\ nodesMu' = "free"
    /\ UNCHANGED <<now, nodes, queue, lastRebalanceTime, CooldownPeriod, autoRRs,
                   nodeEvents, attempts, mu, initialEvent, rrVars, engineVars>>

\* a bug: triggerRebalanceIfNeeded goes on without taking mu
HandlerLockMuSkipped(n) ==
    /\ handler[n].pc = "lockMu"
    /\ handler' = Goto(n, "check")
    /\ UNCHANGED <<now, nodes, queue, knownNodes, lastRebalanceTime, CooldownPeriod,
                   autoRRs, nodeEvents, attempts, mu, nodesMu, initialEvent, rrVars,
                   engineVars>>

\* triggerRebalanceIfNeeded: r.mu.Lock(); defer r.mu.Unlock()
HandlerLockMu(n) ==
    /\ handler[n].pc = "lockMu"
    /\ mu = "free"
    /\ mu' = n
    /\ handler' = Goto(n, "check")
    /\ UNCHANGED <<now, nodes, queue, knownNodes, lastRebalanceTime, CooldownPeriod,
                   autoRRs, nodeEvents, attempts, nodesMu, initialEvent, rrVars, engineVars>>

TriggerReason(n) == IF handler[n].found THEN "node-added" ELSE "node-removed"

\* the cooldown check; inside the cooldown the call returns and mu is released
HandlerCheck(n) ==
    /\ handler[n].pc = "check"
    /\ IF InCooldown
       THEN /\ attempts' = Append(attempts, Attempt(TriggerReason(n), n, "skipped"))
            /\ mu' = "free"
            /\ handler' = Goto(n, "idle")
       ELSE /\ handler' = Goto(n, "create")
            /\ UNCHANGED <<attempts, mu>>
    /\ UNCHANGED <<now, nodes, queue, knownNodes, lastRebalanceTime, CooldownPeriod,
                   autoRRs, nodeEvents, nodesMu, initialEvent, rrVars, engineVars>>

\* r.Create(ctx, rebalanceReq); a failed create returns and mu is released
HandlerCreate(n) ==
    /\ handler[n].pc = "create"
    /\ \E createOk \in BOOLEAN :
          IF createOk
          THEN /\ autoRRs' = Append(autoRRs, NewAutoRebalanceRequest(TriggerReason(n), n,
                                                                     Len(autoRRs) + 1))
               /\ handler' = Goto(n, "record")
               /\ UNCHANGED <<attempts, mu>>
          ELSE /\ attempts' = Append(attempts, Attempt(TriggerReason(n), n, "failed"))
               /\ mu' = "free"
               /\ handler' = Goto(n, "idle")
               /\ UNCHANGED autoRRs
    /\ UNCHANGED <<now, nodes, queue, knownNodes, lastRebalanceTime, CooldownPeriod,
                   nodeEvents, nodesMu, initialEvent, rrVars, engineVars>>

\* r.lastRebalanceTime = time.Now(), then the deferred r.mu.Unlock()
HandlerRecord(n) ==
    /\ handler[n].pc = "record"
    /\ lastRebalanceTime' = RecordedTriggerTime
    /\ attempts' = Append(attempts, Attempt(TriggerReason(n), n, "created"))
    /\ mu' = "free"
    /\ handler' = Goto(n, "idle")
    /\ UNCHANGED <<now, nodes, queue, knownNodes, CooldownPeriod, autoRRs, nodeEvents,
                   nodesMu, initialEvent, rrVars, engineVars>>

NextConcurrentWatcher ==
    \/ \E n \in NodeNames : nodeEvents < MaxConcurrentNodeEvents /\ NodeCreated(n)
    \/ \E n \in NodeNames : nodeEvents < MaxConcurrentNodeEvents /\ NodeUpdated(n)
    \/ \E n \in NodeNames : nodeEvents < MaxConcurrentNodeEvents /\ NodeDeleted(n)
    \/ \E n \in NodeNames : HandlerGet(n)
    \/ \E n \in NodeNames : HandlerLockNodes(n)
    \/ \E n \in NodeNames : HandlerKnown(n)
    \/ \E n \in NodeNames : HandlerLockMu(n)
    \/ \E n \in NodeNames : HandlerCheck(n)
    \/ \E n \in NodeNames : HandlerCreate(n)
    \/ \E n \in NodeNames : HandlerRecord(n)
    \/ \E d \in WatcherSteps : WatcherTick(d)

SpecConcurrentWatcher == InitWatcher /\ [][NextConcurrentWatcher]_vars

(***************************************************************************)
(* Engine: the rebalance decision function and its batched executor.      *)
(***************************************************************************)
RebalanceEnabledLabel == "kore.boring.io/rebalance"
AllowLocalStorageLabel == "kore.boring.io/allow-local-storage-eviction"
\* a bug: no namespace is skipped
SystemNamespacesNone == {}

SystemNamespaces == {"kube-system", "kube-public", "kube-node-lease"}

\* a nil error
NoError == ""

\* RebalanceResult
RebalanceResult(evicted, total, err, message) ==
    [ PodsEvicted |-> evicted, TotalPods |-> total, Error |-> err, Message |-> message ]

\* what one call of ExecuteRebalance did: the RebalanceResult it returned, the
\* pods it attempted to evict (in order), the eviction sub-resources it created,
\* the number of completed inter-batch waits and the time it spent waiting
EngineRun(result, plan, attempted, created, waits, elapsed) ==
    [ result |-> result, plan |-> plan, attempted |-> attempted, created |-> created,
      waits |-> waits, elapsed |-> elapsed ]

Min(a, b) == IF a < b THEN a ELSE b

LabelOf(labels, key) == IF key \in DOMAIN labels THEN labels[key] ELSE ""

isNodeUnschedulable(node) == node.Unschedulable

isOwnedByDaemonSet(pod) == \E i \in 1..Len(pod.OwnerKinds) : pod.OwnerKinds[i] = "DaemonSet"

hasLocalStorage(pod) == \E i \in 1..Len(pod.Volumes) : pod.Volumes[i] \in {"EmptyDir", "HostPath"}

\* a bug: cordoned nodes are retained
getReadyNodesWithCordoned(nodeItems) == SelectSeq(nodeItems, LAMBDA n : n.Ready)

\* getReadyNodes: the listed nodes that are Ready and not cordoned, in list order
getReadyNodes(nodeItems) ==
    SelectSeq(nodeItems, LAMBDA n : n.Ready /\ ~isNodeUnschedulable(n))

\* selector.Matches(labels.Set(pod.Labels)) for a matchLabels selector
SelectorMatches(selector, labels) ==
    \A k \in DOMAIN selector.MatchLabels : LabelOf(labels, k) = selector.MatchLabels[k]

\* the per-pod filter of getCandidatePods
IsCandidate(pod, selector) ==
    /\ LabelOf(pod.Labels, RebalanceEnabledLabel) = "true"
    /\ (selector.Set => SelectorMatches(selector, pod.Labels))
    /\ pod.Phase = "Running"
    /\ pod.NodeName # ""
    /\ ~isOwnedByDaemonSet(pod)
    /\ ~(hasLocalStorage(pod) /\ LabelOf(pod.Labels, AllowLocalStorageLabel) # "true")

RECURSIVE PodsOfNamespaces(_, _, _)
\* the loop over namespaces of getCandidatePods: system namespaces are skipped,
\* the candidates of each other namespace are appended in list order
PodsOfNamespaces(namespaces, podItems, selector) ==
    IF namespaces = <<>> THEN <<>>
    ELSE LET ns == Head(namespaces)
             rest == PodsOfNamespaces(Tail(namespaces), podItems, selector) IN
         IF ns \in SystemNamespaces THEN rest
         ELSE SelectSeq(podItems,
                        LAMBDA pod : pod.Namespace = ns /\ IsCandidate(pod, selector))
              \o rest

\* getCandidatePods; yields [err, pods]
getCandidatePods(spec, cluster, io) ==
    IF Len(spec.Namespaces) = 0 /\ ~io.listNamespacesOk
    THEN [err |-> "list namespaces failed", pods |-> <<>>]
    ELSE IF spec.Selector.Set /\ ~spec.Selector.Valid
    THEN [err |-> "invalid selector: bad operator", pods |-> <<>>]
    ELSE LET namespaces == IF Len(spec.Namespaces) = 0 THEN cluster.Namespaces
                           ELSE spec.Namespaces IN
         IF ~io.listPodsOk /\ \E i \in 1..Len(namespaces) : namespaces[i] \notin SystemNamespaces
         THEN [err |-> "list pods failed", pods |-> <<>>]
         ELSE [err |-> NoError,
               pods |-> PodsOfNamespaces(namespaces, cluster.Pods, spec.Selector)]

\* matchesNodeSelector
matchesNodeSelector(node, selector) ==
    \A k \in DOMAIN selector : k \in DOMAIN node.Labels /\ node.Labels[k] = selector[k]

RECURSIVE FirstMatchingTarget(_, _)
FirstMatchingTarget(node, nodeTargets) ==
    IF nodeTargets = <<>> THEN 0
    ELSE IF matchesNodeSelector(node, Head(nodeTargets).NodeSelector)
    THEN Head(nodeTargets).TargetPodsPerNode
    ELSE FirstMatchingTarget(node, Tail(nodeTargets))

\* a bug: the last matching rule wins instead of the first
getTargetForNodeLastMatch(node, nodeTargets) ==
    LET matching == { i \in 1..Len(nodeTargets) :
                        matchesNodeSelector(node, nodeTargets[i].NodeSelector) } IN
    IF Len(nodeTargets) = 0 THEN -1
    ELSE IF matching = {} THEN 0
    ELSE nodeTargets[CHOOSE i \in matching : \A j \in matching : j <= i].TargetPodsPerNode

\* getTargetForNode
getTargetForNode(node, nodeTargets) ==
    IF Len(nodeTargets) = 0 THEN -1 ELSE FirstMatchingTarget(node, nodeTargets)

RECURSIVE InsertDesc(_, _)
\* insert e into the sequence s, sorted by key descending, after larger or equal keys
InsertDesc(e, s) ==
    IF s = <<>> THEN <<e>>
    ELSE IF e.key > Head(s).key THEN <<e>> \o s
    ELSE <<Head(s)>> \o InsertDesc(e, Tail(s))

RECURSIVE SortDesc(_)
\* sort.Slice with a "greater" less-function: keys descending
SortDesc(s) ==
    IF s = <<>> THEN <<>>
    ELSE InsertDesc(s[Len(s)], SortDesc(SubSeq(s, 1, Len(s) - 1)))

Values(s) == [i \in 1..Len(s) |-> s[i].val]

\* sort.Slice is not stable and the node map is walked in random order: elements
\* with equal keys end up in an order the build chooses. rank (name -> distinct
\* integer) is the order the elements are in before a stable sort; names[i] is
\* the name of s[i].
Arranged(s, rank, names) ==
    Values(SortDesc([i \in 1..Len(s) |-> [key |-> rank[names[i]], val |-> s[i]]]))

\* the anti-thrash slack: "Allow 1 pod tolerance to avoid thrashing"
Tolerance == 1

\* a bug: no tolerance, a node one pod over its target is touched
excessPodsNoTolerance(nc) == nc.PodCount - nc.TargetPods

\* excessPods := nc.PodCount - nc.TargetPods - 1
excessPods(nc) == nc.PodCount - nc.TargetPods - Tolerance

\* a bug: the oldest pods of the node are taken instead of the newest
PodsToEvictOnNodeOldestFirst(nc, podTie) ==
    LET keyed == [i \in 1..Len(nc.Pods) |->
                     [key |-> nc.Pods[i].CreationTimestamp, val |-> nc.Pods[i]]]
        podNames == [i \in 1..Len(nc.Pods) |-> nc.Pods[i].Name]
        podsOnNode == Values(SortDesc(Arranged(keyed, podTie, podNames)))
        n == Min(excessPods(nc), Len(podsOnNode)) IN
    IF excessPods(nc) <= 0 THEN <<>>
    ELSE SubSeq(podsOnNode, Len(podsOnNode) - n + 1, Len(podsOnNode))

\* the pods of one node that go into the plan: newest first, the first excessPods
PodsToEvictOnNode(nc, podTie) ==
    LET keyed == [i \in 1..Len(nc.Pods) |->
                     [key |-> nc.Pods[i].CreationTimestamp, val |-> nc.Pods[i]]]
        podNames == [i \in 1..Len(nc.Pods) |-> nc.Pods[i].Name]
        podsOnNode == Values(SortDesc(Arranged(keyed, podTie, podNames)))
        n == Min(excessPods(nc), Len(podsOnNode)) IN
    IF excessPods(nc) <= 0 THEN <<>> ELSE SubSeq(podsOnNode, 1, n)

RECURSIVE ConcatPlans(_, _)
ConcatPlans(nodeCounts, podTie) ==
    IF nodeCounts = <<>> THEN <<>>
    ELSE PodsToEvictOnNode(Head(nodeCounts), podTie) \o ConcatPlans(Tail(nodeCounts), podTie)

\* a bug: the average counts only the pods on the retained nodes
SortedNodeCountsRetainedAverage(readyNodes, pods, nodeTargets, nodeTie) ==
    LET onNode(node) == SelectSeq(pods, LAMBDA pod : pod.NodeName = node.Name)
        retained == SelectSeq(pods, LAMBDA pod :
                                       \E i \in 1..Len(readyNodes) :
                                          readyNodes[i].Name = pod.NodeName)
        keyed == [i \in 1..Len(readyNodes) |->
                     LET target == IF Len(nodeTargets) = 0
                                   THEN Len(retained) \div Len(readyNodes)
                                   ELSE getTargetForNode(readyNodes[i], nodeTargets) IN
                     [ key |-> Len(onNode(readyNodes[i])) - target,
                       val |-> [ NodeName |-> readyNodes[i].Name,
                                 PodCount |-> Len(onNode(readyNodes[i])),
                                 TargetPods |-> target,
                                 Pods |-> onNode(readyNodes[i]) ] ]] IN
    Values(SortDesc(Arranged(keyed, nodeTie,
                             [i \in 1..Len(readyNodes) |-> readyNodes[i].Name])))

\* a bug: the nodes are not sorted by their excess
SortedNodeCountsUnsorted(readyNodes, pods, nodeTargets, nodeTie) ==
    LET entry(node) ==
            LET nodePods == SelectSeq(pods, LAMBDA pod : pod.NodeName = node.Name) IN
            [ NodeName |-> node.Name, PodCount |-> Len(nodePods),
              TargetPods |-> IF Len(nodeTargets) = 0 THEN Len(pods) \div Len(readyNodes)
                             ELSE getTargetForNode(node, nodeTargets),
              Pods |-> nodePods ] IN
    Arranged([i \in 1..Len(readyNodes) |-> entry(readyNodes[i])], nodeTie,
             [i \in 1..Len(readyNodes) |-> readyNodes[i].Name])

\* the NodePodCount entries, sorted by excess descending
SortedNodeCounts(readyNodes, pods, nodeTargets, nodeTie) ==
    LET avgPodsPerNode == Len(pods) \div Len(readyNodes)
        entry(node) ==
            LET nodePods == SelectSeq(pods, LAMBDA pod : pod.NodeName = node.Name)
                target == getTargetForNode(node, nodeTargets) IN
            [ NodeName |-> node.Name, PodCount |-> Len(nodePods),
              TargetPods |-> IF Len(nodeTargets) = 0 THEN avgPodsPerNode ELSE target,
              Pods |-> nodePods ]
        keyed == [i \in 1..Len(readyNodes) |->
                     LET nc == entry(readyNodes[i]) IN
                     [key |-> nc.PodCount - nc.TargetPods, val |-> nc]] IN
    LET nodeNames == [i \in 1..Len(readyNodes) |-> readyNodes[i].Name] IN
    Values(SortDesc(Arranged(keyed, nodeTie, nodeNames)))

\* calculatePodsToEvict
calculatePodsToEvict(readyNodes, pods, nodeTargets, tie) ==
    ConcatPlans(SortedNodeCounts(readyNodes, pods, nodeTargets, tie.nodes), tie.pods)

\* a bug: a batch size of 0 gives batches of one pod
EffectiveBatchSizeFloorOne(spec) == IF spec.BatchSize < 1 THEN 1 ELSE spec.BatchSize

\* if batchSize <= 0 { batchSize = 5 }
EffectiveBatchSize(spec) == IF spec.BatchSize <= 0 THEN 5 ELSE spec.BatchSize

\* if batchInterval <= 0 { batchInterval = 30 * time.Second }
EffectiveBatchInterval(spec) ==
    IF spec.BatchIntervalSeconds <= 0 THEN 30 ELSE spec.BatchIntervalSeconds

RECURSIVE EvictBatchIgnoringDryRun(_, _, _, _)
\* a bug: a dry run evicts
EvictBatchIgnoringDryRun(batch, spec, io, acc) ==
    IF batch = <<>> THEN acc
    ELSE LET pod == Head(batch) IN
         IF pod.Name \in io.evictFails
         THEN EvictBatchIgnoringDryRun(Tail(batch), spec, io,
                         [acc EXCEPT !.attempted = Append(acc.attempted, pod.Name)])
         ELSE EvictBatchIgnoringDryRun(Tail(batch), spec, io,
                         [acc EXCEPT !.evicted = acc.evicted + 1,
                                     !.attempted = Append(acc.attempted, pod.Name),
                                     !.created = Append(acc.created, pod.Name)])

RECURSIVE EvictBatchStopOnFailure(_, _, _, _)
\* a bug: a failed eviction ends the batch
EvictBatchStopOnFailure(batch, spec, io, acc) ==
    IF batch = <<>> THEN acc
    ELSE LET pod == Head(batch) IN
         IF spec.DryRun
         THEN EvictBatchStopOnFailure(Tail(batch), spec, io,
                         [acc EXCEPT !.evicted = acc.evicted + 1])
         ELSE IF pod.Name \in io.evictFails
         THEN [acc EXCEPT !.attempted = Append(acc.attempted, pod.Name)]
         ELSE EvictBatchStopOnFailure(Tail(batch), spec, io,
                         [acc EXCEPT !.evicted = acc.evicted + 1,
                                     !.attempted = Append(acc.attempted, pod.Name),
                                     !.created = Append(acc.created, pod.Name)])

RECURSIVE EvictBatch(_, _, _, _)
\* the inner loop over one batch; acc = [evicted, attempted, created]
EvictBatch(batch, spec, io, acc) ==
    IF batch = <<>> THEN acc
    ELSE LET pod == Head(batch) IN
         IF spec.DryRun
         THEN EvictBatch(Tail(batch), spec, io,
                         [acc EXCEPT !.evicted = acc.evicted + 1])
         ELSE IF pod.Name \in io.evictFails
         THEN EvictBatch(Tail(batch), spec, io,
                         [acc EXCEPT !.attempted = Append(acc.attempted, pod.Name)])
         ELSE EvictBatch(Tail(batch), spec, io,
                         [acc EXCEPT !.evicted = acc.evicted + 1,
                                     !.attempted = Append(acc.attempted, pod.Name),
                                     !.created = Append(acc.created, pod.Name)])

\* RollingEviction that never looks at the cancel signal
RECURSIVE RollingEvictionIgnoringCancel(_, _, _, _, _, _, _)
RollingEvictionIgnoringCancel(podsToEvict, total, spec, io, i, waits, acc) ==
    IF i >= Len(podsToEvict)
    THEN EngineRun(RebalanceResult(acc.evicted, total, NoError,
                                   "Successfully evicted " \o ToString(acc.evicted) \o " pods"),
                   podsToEvict, acc.attempted, acc.created, waits,
                   waits * EffectiveBatchInterval(spec))
    ELSE LET end == Min(i + EffectiveBatchSize(spec), Len(podsToEvict))
             done == EvictBatch(SubSeq(podsToEvict, i + 1, end), spec, io, acc) IN
         RollingEvictionIgnoringCancel(podsToEvict, total, spec, io,
                                       i + EffectiveBatchSize(spec),
                                       IF end < Len(podsToEvict) THEN waits + 1 ELSE waits,
                                       done)

RECURSIVE RollingEviction(_, _, _, _, _, _, _)
\* the outer loop "for i := 0; i < len(podsToEvict); i += batchSize", from offset
\* i (0-based) with waits inter-batch waits completed so far; io.cancelAtWait is
\* the wait during which ctx.Done() fires (0: never)
RollingEviction(podsToEvict, total, spec, io, i, waits, acc) ==
    IF i >= Len(podsToEvict)
    THEN EngineRun(RebalanceResult(acc.evicted, total, NoError,
                                   "Successfully evicted " \o ToString(acc.evicted) \o " pods"),
                   podsToEvict, acc.attempted, acc.created, waits,
                   waits * EffectiveBatchInterval(spec))
    ELSE LET end == Min(i + EffectiveBatchSize(spec), Len(podsToEvict))
             batch == SubSeq(podsToEvict, i + 1, end)
             done == EvictBatch(batch, spec, io, acc) IN
         IF end < Len(podsToEvict) /\ io.cancelAtWait = waits + 1
         THEN EngineRun(RebalanceResult(done.evicted, total, "context canceled",
                                        "Rebalance interrupted"),
                        podsToEvict, done.attempted, done.created, waits,
                        waits * EffectiveBatchInterval(spec))
         ELSE RollingEviction(podsToEvict, total, spec, io,
                              i + EffectiveBatchSize(spec),
                              IF end < Len(podsToEvict) THEN waits + 1 ELSE waits, done)

NoEviction(result) == EngineRun(result, <<>>, <<>>, <<>>, 0, 0)

\* ExecuteRebalance on the cluster the client shows, with the outcomes io of the
\* API calls and the tie-breaks tie of the sorts
ExecuteRebalance(spec, cluster, io, tie) ==
    IF ~io.listNodesOk
    THEN NoEviction(RebalanceResult(0, 0, "failed to get nodes: list failed", ""))
    ELSE LET readyNodes == getReadyNodes(cluster.Nodes) IN
    IF Len(readyNodes) < 2
    THEN NoEviction(RebalanceResult(0, 0, NoError,
                                    "Not enough nodes for rebalancing (need at least 2)"))
    ELSE LET got == getCandidatePods(spec, cluster, io) IN
    IF got.err # NoError
    THEN NoEviction(RebalanceResult(0, 0, "failed to get candidate pods: " \o got.err, ""))
    ELSE IF Len(got.pods) = 0
    THEN NoEviction(RebalanceResult(0, 0, NoError, "No pods found matching criteria"))
    ELSE LET podsToEvict == calculatePodsToEvict(readyNodes, got.pods, spec.NodeTargets, tie) IN
    IF Len(podsToEvict) = 0
    THEN NoEviction(RebalanceResult(0, Len(got.pods), NoError, "Cluster is already balanced"))
    ELSE RollingEviction(podsToEvict, Len(got.pods), spec, io, 0, 0,
                         [evicted |-> 0, attempted |-> <<>>, created |-> <<>>])

(***************************************************************************)
(* The clusters, API outcomes and RebalanceRequests the reconciler is      *)
(* explored with.                                                          *)
(***************************************************************************)
EngineNodeNames == <<"A", "B", "C">>

EngineNodeLabels ==
    ("A" :> ("hw" :> "x")) @@ ("B" :> ("hw" :> "y")) @@ ("C" :> ("hw" :> "x"))

\* a corev1.Node, as far as the engine reads it
Node(name, state) ==
    [ Name |-> name, Ready |-> state # "notready", Unschedulable |-> state = "cordoned",
      Labels |-> EngineNodeLabels[name] ]

\* a running, labelled, ReplicaSet-owned pod without local storage, created at time i
Pod(i, nodeName) ==
    [ Name |-> "p" \o ToString(i), Namespace |-> "default", NodeName |-> nodeName,
      Labels |-> (RebalanceEnabledLabel :> "true"), Phase |-> "Running",
      OwnerKinds |-> <<"ReplicaSet">>, Volumes |-> <<>>, CreationTimestamp |-> i ]

\* the node of the i-th pod when counts[k] pods sit on the k-th node
RECURSIVE NodeOfPod(_, _, _)
NodeOfPod(i, counts, k) ==
    IF i <= counts[k] THEN EngineNodeNames[k] ELSE NodeOfPod(i - counts[k], counts, k + 1)

Cluster(states, counts) ==
    [ Nodes |-> [k \in 1..Len(EngineNodeNames) |-> Node(EngineNodeNames[k], states[k])],
      Namespaces |-> <<"default", "kube-system">>,
      Pods |-> [i \in 1..(counts[1] + counts[2] + counts[3]) |-> Pod(i, NodeOfPod(i, counts, 1))] ]

NodeStateChoices ==
    { <<"ready", "ready", "ready">>,
      <<"ready", "notready", "ready">>,
      <<"notready", "cordoned", "ready">> }

\* all candidate pods on the first node, or all on the second
PodCountChoices ==
    { <<k, 0, 0>> : k \in 0..MaxPods } \cup { <<0, k, 0>> : k \in 0..MaxPods }

Clusters == { Cluster(st, c) : st \in NodeStateChoices, c \in PodCountChoices }

PodNames == { "p" \o ToString(i) : i \in 1..MaxPods }

\* outcomes of the API calls of one tick
IO(listNodesOk, listNamespacesOk, listPodsOk, evictFails, cancelAtWait) ==
    [ listNodesOk |-> listNodesOk, listNamespacesOk |-> listNamespacesOk,
      listPodsOk |-> listPodsOk, evictFails |-> evictFails, cancelAtWait |-> cancelAtWait ]

\* a failing list call; or no failure, or the eviction of the newest pod refused,
\* or every eviction refused, each with and without a cancel in the first wait
IOs(cluster) ==
    LET newest == { cluster.Pods[i].Name : i \in {Len(cluster.Pods)} \ {0} } IN
    { IO(FALSE, TRUE, TRUE, {}, 0), IO(TRUE, FALSE, TRUE, {}, 0), IO(TRUE, TRUE, FALSE, {}, 0) }
    \cup { IO(TRUE, TRUE, TRUE, f, c) : f \in {{}, newest, PodNames}, c \in {0, 1} }

\* tie-breaks of the two sorts: equal elements in list order, or in reverse
ListOrder(names) == [n \in names |-> 0]

NodeIndex(n) == CHOOSE k \in 1..Len(EngineNodeNames) : EngineNodeNames[k] = n
PodIndex(q) == CHOOSE i \in 1..MaxPods : q = "p" \o ToString(i)

Ties ==
    { [ nodes |-> ListOrder({"A", "B", "C"}), pods |-> ListOrder(PodNames) ],
      [ nodes |-> [n \in {"A", "B", "C"} |-> NodeIndex(n)],
        pods |-> [q \in PodNames |-> PodIndex(q)] ] }

HwX == [ NodeSelector |-> ("hw" :> "x"), TargetPodsPerNode |-> 1 ]

\* the specs of the RebalanceRequests a user creates
UserSpecs ==
    { RebalanceRequestSpec(NilSelector, <<>>, <<>>, i, 1, 30, FALSE) : i \in {0, 10, 30, 90} }
    \cup { RebalanceRequestSpec(NilSelector, <<>>, <<HwX>>, 30, 1, 0, TRUE),
           RebalanceRequestSpec(LabelSelector(FALSE, NoLabels), <<"default">>, <<>>, 0, 5, 30, FALSE) }

\* every way a tick of the engine can go, for each spec explored
EngineRunsBySpec ==
    UNION { { <<sp, ExecuteRebalance(sp, c, io, tie)>> :
                sp \in UserSpecs \cup {AutoSpec}, io \in IOs(c), tie \in Ties } :
            c \in Clusters }

EngineRuns(spec) == { p[2] : p \in { q \in EngineRunsBySpec : q[1] = spec } }

(***************************************************************************)
(* RebalanceRequestReconciler.                                             *)
(***************************************************************************)
\* a bug: the 30-second floor is not applied
IntervalNoFloor(spec) == spec.IntervalSeconds

\* interval := IntervalSeconds * time.Second; if interval < 30s { interval = 60s }
Interval(spec) == IF spec.IntervalSeconds < 30 THEN 60 ELSE spec.IntervalSeconds

\* the zero RebalanceResult
NoResult == RebalanceResult(0, 0, NoError, "")

\* what one Reconcile did: the branch it took, the ctrl.Result and error it
\* returned, the engine's result when it was invoked, and whether the status
\* write was made and succeeded
ReconcileResult(path, requeue, requeueAfter, err, result, written) ==
    [ path |-> path, Requeue |-> requeue, RequeueAfter |-> requeueAfter, err |-> err,
      result |-> result, written |-> written ]

NotReconciled == ReconcileResult("none", FALSE, 0, NoError, NoResult, FALSE)

\* "Initialize status if pending": the status the reconciler writes
InitializedStatus(status, t) ==
    [status EXCEPT !.Phase = "Active", !.StartTime = t, !.Message = "Rebalancer active"]

\* a bug: the run's evictions replace the total instead of adding to it
SettledStatusNoSum(status, spec, result, t) ==
    [status EXCEPT !.LastEvictedCount = result.PodsEvicted,
                   !.TotalPodsEvicted = result.PodsEvicted,
                   !.RunCount = Int32Add(status.RunCount, 1),
                   !.LastRunTime = t,
                   !.NextRunTime = t + Interval(spec),
                   !.Message = "Run " \o ToString(Int32Add(status.RunCount, 1)) \o ": "
                               \o result.Message]

\* a bug: the run is not counted
SettledStatusNoRunCount(status, spec, result, t) ==
    [status EXCEPT !.LastEvictedCount = result.PodsEvicted,
                   !.TotalPodsEvicted = Int32Add(status.TotalPodsEvicted, result.PodsEvicted),
                   !.LastRunTime = t,
                   !.NextRunTime = t + Interval(spec),
                   !.Message = "Run " \o ToString(status.RunCount) \o ": " \o result.Message]

\* a bug: the run's evictions are not added to the total
SettledStatusStaleTotal(status, spec, result, t) ==
    [status EXCEPT !.LastEvictedCount = result.PodsEvicted,
                   !.RunCount = Int32Add(status.RunCount, 1),
                   !.LastRunTime = t,
                   !.NextRunTime = t + Interval(spec),
                   !.Message = "Run " \o ToString(Int32Add(status.RunCount, 1)) \o ": "
                               \o result.Message]

\* a bug: an engine error ends the request
SettledStatusFailsOnError(status, spec, result, t) ==
    LET runCount == Int32Add(status.RunCount, 1) IN
    [status EXCEPT !.Phase = IF result.Error # NoError THEN "Failed" ELSE status.Phase,
                   !.LastEvictedCount = result.PodsEvicted,
                   !.TotalPodsEvicted = Int32Add(status.TotalPodsEvicted, result.PodsEvicted),
                   !.RunCount = runCount,
                   !.LastRunTime = t,
                   !.NextRunTime = t + Interval(spec),
                   !.Message = IF result.Error # NoError
                               THEN "Run " \o ToString(runCount) \o " error: " \o result.Error
                               ELSE "Run " \o ToString(runCount) \o ": " \o result.Message]

\* "Update status" and "Schedule next run": the status written after the engine
\* returned result at time t
SettledStatus(status, spec, result, t) ==
    LET runCount == Int32Add(status.RunCount, 1) IN
    [status EXCEPT !.LastEvictedCount = result.PodsEvicted,
                   !.TotalPodsEvicted = Int32Add(status.TotalPodsEvicted, result.PodsEvicted),
                   !.RunCount = runCount,
                   !.LastRunTime = t,
                   !.NextRunTime = t + Interval(spec),
                   !.Message = IF result.Error # NoError
                               THEN "Run " \o ToString(runCount) \o " error: " \o result.Error
                               ELSE "Run " \o ToString(runCount) \o ": " \o result.Message]

\* Get fails with not-found: the object was deleted
ReconcileNotFound ==
    /\ ~rr.exists
    /\ lastReconcile' = ReconcileResult("notfound", FALSE, 0, NoError, NoResult, FALSE)
    /\ UNCHANGED <<now, rr, engineCalls, evictionsCreated, lastEngineAt, watcherVars, engineVars>>

\* a bug: a failed status update is swallowed
StatusUpdateFailedSwallowed(path, result) ==
    ReconcileResult(path, FALSE, 0, NoError, result, FALSE)

\* if err := r.Status().Update(ctx, &rr); err != nil {
\*     return ctrl.Result{RequeueAfter: 5 * time.Second}, err }
StatusUpdateFailed(path, result) ==
    ReconcileResult(path, FALSE, 5, "status update failed", result, FALSE)

\* the "Initialize status if pending" branch
ReconcileInit ==
    /\ rr.exists
    /\ rr.status.Phase \in {"", "Pending"}
    /\ \E updateOk \in BOOLEAN :
          IF updateOk
          THEN /\ rr' = [rr EXCEPT !.status = InitializedStatus(rr.status, now)]
               /\ lastReconcile' = ReconcileResult("init", TRUE, 0, NoError, NoResult, TRUE)
          ELSE /\ rr' = rr
               /\ lastReconcile' = StatusUpdateFailed("init", NoResult)
    /\ UNCHANGED <<now, engineCalls, evictionsCreated, lastEngineAt, watcherVars, engineVars>>

\* a bug: the check of NextRunTime is left out
NotYetDueNever(status) == FALSE

\* a bug: a request that has run once is never found due again
NotYetDueAlways(status) == status.NextRunTime # NilTime

\* "Check if it's time to run": NextRunTime lies in the future
NotYetDue(status) == status.NextRunTime # NilTime /\ now < status.NextRunTime

ReconcileWait ==
    /\ rr.exists
    /\ rr.status.Phase \notin {"", "Pending"}
    /\ NotYetDue(rr.status)
    /\ lastReconcile' = ReconcileResult("wait", FALSE, rr.status.NextRunTime - now, NoError,
                                        NoResult, FALSE)
    /\ UNCHANGED <<now, rr, engineCalls, evictionsCreated, lastEngineAt, watcherVars, engineVars>>

\* "Execute the rebalance": the engine runs (and takes run.elapsed seconds), the
\* status is settled and written
ReconcileRunUntil(maxTime, mayRun, writeOutcomes) ==
    /\ rr.exists
    /\ rr.status.Phase \notin {"", "Pending"}
    /\ ~NotYetDue(rr.status)
    /\ mayRun
    /\ \E run \in EngineRuns(rr.spec), updateOk \in writeOutcomes :
          /\ now + run.elapsed <= maxTime
          /\ now' = now + run.elapsed
          /\ engineCalls' = engineCalls + 1
          /\ evictionsCreated' = evictionsCreated + Len(run.created)
          /\ lastEngineAt' = now'
          /\ IF updateOk
             THEN /\ rr' = [rr EXCEPT !.status = SettledStatus(rr.status, rr.spec, run.result, now')]
                  /\ lastReconcile' = ReconcileResult("run", FALSE, Interval(rr.spec), NoError,
                                                       run.result, TRUE)
             ELSE /\ rr' = rr
                  /\ lastReconcile' = StatusUpdateFailed("run", run.result)
    /\ UNCHANGED <<watcherVars, engineVars>>

ReconcileRun == ReconcileRunUntil(MaxReconcileTime, engineCalls < MaxRuns, BOOLEAN)

\* RebalanceRequestReconciler.Reconcile. A Get that fails with an error other
\* than not-found returns the error and changes nothing (a stuttering step).
Reconcile == ReconcileNotFound \/ ReconcileInit \/ ReconcileWait \/ ReconcileRun

\* the object is deleted by its owner
DeleteRR ==
    /\ rr.exists
    /\ rr' = NoRR
    /\ UNCHANGED <<now, lastReconcile, engineCalls, evictionsCreated, lastEngineAt, watcherVars, engineVars>>

ReconcileTickUntil(d, maxTime) ==
    /\ now + d <= maxTime
    /\ now' = now + d
    /\ UNCHANGED <<watcherVars, rrVars, engineVars>>

ReconcileTick(d) == ReconcileTickUntil(d, MaxReconcileTime)

\* a RebalanceRequest a user created
UserRR(spec) ==
    [ exists |-> TRUE, name |-> "manual-rebalance", namespace |-> "default", created |-> 0,
      labels |-> NoLabels, spec |-> spec, status |-> EmptyStatus ]

\* the phases an object can be found in when the controller first sees it: a new
\* object has none or the CRD default Pending; Completed and Failed are phases of
\* the API's enum that an earlier run of the operator or a status write left
FirstSeenPhases == {"", "Pending", "Completed", "Failed"}

IdleWatcher ==
    /\ nodes = [n \in NodeNames |-> "absent"]
    /\ queue = {}
    /\ knownNodes = [n \in NodeNames |-> "none"]
    /\ initialEvent = [n \in NodeNames |-> "done"]
    /\ lastRebalanceTime = ZeroTime
    /\ CooldownPeriod = 0
    /\ autoRRs = <<>>
    /\ nodeEvents = 0
    /\ attempts = <<>>
    /\ NoHandlerRunning

InitRR ==
    /\ now = 0
    /\ \E obj \in {UserRR(sp) : sp \in UserSpecs}
                  \cup {NewAutoRebalanceRequest("node-added", "A", 1)},
          ph \in FirstSeenPhases :
          rr = [obj EXCEPT !.status.Phase = ph]
    /\ lastReconcile = NotReconciled
    /\ engineCalls = 0
    /\ evictionsCreated = 0
    /\ lastEngineAt = NilTime
    /\ IdleWatcher
    /\ IdleEngine

NextRR ==
    \/ Reconcile
    \/ DeleteRR
    \/ \E d \in ReconcileSteps : ReconcileTick(d)

SpecRR == InitRR /\ [][NextRR]_vars

\* ---- an interval request that is never deleted, with fair requeues ----

\* the number of status writes after a run that may fail
MaxWriteFailures == 1

\* the clock of the fair specification runs long enough for every run and every
\* interval up to the bound on the runs
MaxLiveTime == (MaxRuns + MaxWriteFailures) * (90 + 30 * MaxPods)

\* the run of a request that is due, while it has settled fewer than MaxRuns
\* runs; the status write that follows fails at most MaxWriteFailures times
LiveReconcileRun ==
    ReconcileRunUntil(MaxLiveTime, rr.status.RunCount < MaxRuns,
                      IF engineCalls - rr.status.RunCount < MaxWriteFailures
                      THEN BOOLEAN ELSE {TRUE})

\* time passes while the request waits for its NextRunTime: a requeue that is
\* due is served before the clock moves on
LiveTick(d) ==
    /\ rr.exists
    /\ rr.status.Phase \notin {"", "Pending"}
    /\ NotYetDue(rr.status)
    /\ ReconcileTickUntil(d, MaxLiveTime)

NextLiveRR ==
    \/ ReconcileInit
    \/ ReconcileWait
    \/ LiveReconcileRun
    \/ \E d \in ReconcileSteps : LiveTick(d)

\* every result of Reconcile asks for a requeue (Requeue, RequeueAfter or an
\* error), which the work queue serves: the reconcile that is due is eventually
\* run, a status write eventually succeeds, and the clock advances
FairnessRR ==
    /\ WF_vars(ReconcileInit)
    /\ WF_vars(LiveReconcileRun)
    /\ WF_vars(\E d \in ReconcileSteps : LiveTick(d))

LiveSpecRR == InitRR /\ [][NextLiveRR]_vars /\ FairnessRR

(***************************************************************************)
(* The engine called on its own: the snapshots, requests, API outcomes     *)
(* and sort orders ExecuteRebalance is explored with.                      *)
(***************************************************************************)
\* creation timestamps of the pods: all different, or equal in pairs
StampPatterns == {"distinct", "paired"}

Stamp(i, pattern) == IF pattern = "distinct" THEN i ELSE (i + 1) \div 2

\* a labelled running pod in kube-system on the first node, newer than every other pod
SystemPod ==
    [ Pod(0, "A") EXCEPT !.Name = "sys", !.Namespace = "kube-system", !.CreationTimestamp = 100 ]

\* up to MaxPods pods on the first node, 2 on the second, 1 on the third
EnginePodCounts == { <<a, b, c>> : a \in 0..MaxPods, b \in 0..2, c \in 0..1 }

EngineNodeStates ==
    { <<"ready", "ready", "ready">>,
      <<"ready", "notready", "ready">>,
      <<"ready", "ready", "cordoned">>,
      <<"ready", "cordoned", "notready">>,
      <<"ready", "unlisted", "ready">> }

\* a node in state "unlisted" is not in the node list, its pods still are in the
\* pod list
EngineCluster(states, counts, pattern) ==
    [ Nodes |-> SelectSeq([k \in 1..Len(EngineNodeNames) |->
                              Node(EngineNodeNames[k], states[k])],
                          LAMBDA node :
                             \E k \in 1..Len(EngineNodeNames) :
                                EngineNodeNames[k] = node.Name /\ states[k] # "unlisted"),
      Namespaces |-> <<"default", "kube-system">>,
      Pods |-> [i \in 1..(counts[1] + counts[2] + counts[3]) |->
                   [ Pod(i, NodeOfPod(i, counts, 1))
                        EXCEPT !.CreationTimestamp = Stamp(i, pattern) ]]
               \o <<SystemPod>> ]

EngineClusters ==
    { EngineCluster(st, c, pt) :
        st \in EngineNodeStates, c \in EnginePodCounts, pt \in StampPatterns }

\* NodeTargets: none; hw=x only (other nodes unmatched); hw=y before a catch-all;
\* hw=x before a catch-all
HwY == [ NodeSelector |-> ("hw" :> "y"), TargetPodsPerNode |-> 2 ]
AnyNode(target) == [ NodeSelector |-> <<>>, TargetPodsPerNode |-> target ]
EngineTargets == { <<>>, <<HwX>>, <<HwY, AnyNode(0)>>, <<HwX, AnyNode(3)>> }

\* the specs the engine is called with: every namespace or a list that names
\* kube-system, batches of 1 or 2, dry run or not; the batch size and the batch
\* interval left at 0; a list that names the namespace default twice
EngineSpecs ==
    { RebalanceRequestSpec(NilSelector, ns, nt, 30, bs, 30, dry) :
        ns \in { <<>>, <<"kube-system", "default">> }, nt \in EngineTargets,
        bs \in {1, 2}, dry \in BOOLEAN }
    \cup { RebalanceRequestSpec(NilSelector, <<>>, nt, 30, bs, 0, dry) :
             nt \in { <<>>, <<HwY, AnyNode(0)>> }, bs \in {0, 1}, dry \in BOOLEAN }
    \cup { RebalanceRequestSpec(NilSelector, <<"default", "default">>, nt, 30, 2, 30, FALSE) :
             nt \in { <<>>, <<HwY, AnyNode(0)>> } }

PodNamesOf(cluster) == { cluster.Pods[i].Name : i \in 1..Len(cluster.Pods) }

\* a failing list call; or no failure, or the eviction of the last listed pod
\* outside kube-system refused, or every eviction refused, each with and without
\* a cancel in the first wait
EngineIOs(cluster) ==
    LET last == IF Len(cluster.Pods) > 1 THEN Len(cluster.Pods) - 1 ELSE 1 IN
    { IO(FALSE, TRUE, TRUE, {}, 0), IO(TRUE, FALSE, TRUE, {}, 0), IO(TRUE, TRUE, FALSE, {}, 0) }
    \cup { IO(TRUE, TRUE, TRUE, f, c) :
             f \in { {}, {cluster.Pods[last].Name}, PodNamesOf(cluster) }, c \in {0, 1} }

\* equal elements in list order, or in reverse list order
EngineTies(cluster) ==
    { [ nodes |-> ListOrder({"A", "B", "C"}), pods |-> ListOrder(PodNamesOf(cluster)) ],
      [ nodes |-> [n \in {"A", "B", "C"} |-> NodeIndex(n)],
        pods |-> [q \in PodNamesOf(cluster) |->
                    CHOOSE i \in 1..Len(cluster.Pods) : cluster.Pods[i].Name = q] ] }

NoTick == [ done |-> FALSE ]

\* one call of ExecuteRebalance: the retained nodes and candidates it read, the
\* NodePodCount entries it planned with (when it got that far) and what it did
Ticked(spec, cluster, io, tie) ==
    LET readyNodes == IF io.listNodesOk THEN getReadyNodes(cluster.Nodes) ELSE <<>>
        got == IF Len(readyNodes) >= 2 THEN getCandidatePods(spec, cluster, io)
               ELSE [err |-> NoError, pods |-> <<>>]
        planned == Len(readyNodes) >= 2 /\ got.err = NoError /\ Len(got.pods) > 0 IN
    [ done |-> TRUE, io |-> io, tie |-> tie,
      readyNodes |-> readyNodes,
      candidates |-> got.pods,
      planned |-> planned,
      nodeCounts |-> IF planned
                     THEN SortedNodeCounts(readyNodes, got.pods, spec.NodeTargets, tie.nodes)
                     ELSE <<>>,
      run |-> ExecuteRebalance(spec, cluster, io, tie) ]

\* Engine.ExecuteRebalance is called for the request
EngineTick ==
    /\ ~tick.done
    /\ \E io \in EngineIOs(snapshot), tie \in EngineTies(snapshot) :
          tick' = Ticked(request, snapshot, io, tie)
    /\ UNCHANGED <<now, snapshot, request, watcherVars, rrVars>>

\* the evictions the tick created take effect: the evicted pods are gone before
\* the engine is called again
EvictionsTakeEffect ==
    /\ tick.done
    /\ snapshot' = [snapshot EXCEPT !.Pods =
                      SelectSeq(@, LAMBDA pod :
                                     \A i \in 1..Len(tick.run.created) :
                                        tick.run.created[i] # pod.Name)]
    /\ tick' = NoTick
    /\ UNCHANGED <<now, request, watcherVars, rrVars>>

InitEngine ==
    /\ now = 0
    /\ snapshot \in EngineClusters
    /\ request \in EngineSpecs
    /\ tick = NoTick
    /\ IdleWatcher
    /\ IdleRR

NextEngine == EngineTick \/ EvictionsTakeEffect

SpecEngine == InitEngine /\ [][NextEngine]_vars

(***************************************************************************)
(* Claims about the node watcher, checked under SpecWatcher.               *)
(***************************************************************************)
AutoTriggered(obj) == Label(obj, "kore.boring.io/auto-triggered") = "true"

\* C1: an auto-RR is created only when now - lastAutoTrigger >= cooldown, so any
\* two auto-RRs are created at least one cooldown apart; with a cooldown of 5
\* minutes, of three trigger events at t, t + 2 min and t + 6 min of which the
\* first creates an auto-RR, the second is suppressed and the third creates the
\* second auto-RR (when its create call succeeds).
C1_CooldownSeparatesAutoRRs ==
    /\ \A i \in 1..Len(attempts) :
          attempts[i].outcome = "created" =>
             \/ attempts[i].last = ZeroTime
             \/ attempts[i].time - attempts[i].last >= attempts[i].cooldown
    /\ \A i, j \in 1..Len(autoRRs) :
          i < j => autoRRs[j].created - autoRRs[i].created >= Cooldown
    /\ \A i \in 1..(Len(attempts) - 2) :
          ( /\ Cooldown = 300
            /\ attempts[i].outcome = "created"
            /\ attempts[i + 1].time = attempts[i].time + 120
            /\ attempts[i + 2].time = attempts[i].time + 360
            /\ attempts[i + 2].outcome # "failed" )
          => /\ attempts[i + 1].outcome = "skipped"
             /\ attempts[i + 2].outcome = "created"

\* C1's case: three node-added events at 0, 2 and 6 minutes under a 5-minute
\* cooldown have produced exactly two auto-RRs
C1_Witness ==
    /\ Cooldown = 300
    /\ Len(attempts) = 3
    /\ \A i \in 1..3 : attempts[i].reason = "node-added"
    /\ attempts[2].time = attempts[1].time + 120
    /\ attempts[3].time = attempts[1].time + 360
    /\ <<attempts[1].outcome, attempts[2].outcome, attempts[3].outcome>>
          = <<"created", "skipped", "created">>
    /\ Len(autoRRs) = 2

(***************************************************************************)
(* Claims about the RebalanceRequest reconciler, checked under SpecRR.     *)
(***************************************************************************)
\* the last reconcile invoked the engine and wrote the settled status
SettledRun == rr.exists /\ lastReconcile.path = "run" /\ lastReconcile.written

\* C2: for a one-shot RR (intervalSeconds = 0), when the engine returns without
\* error the reconciler sets phase Completed, sets completionTime and sets the
\* message to the engine's message without a "Run R: " prefix.
C2_OneShotCompletes ==
    (SettledRun /\ rr.spec.IntervalSeconds = 0 /\ lastReconcile.result.Error = NoError)
    => /\ rr.status.Phase = "Completed"
       /\ rr.status.CompletionTime # NilTime
       /\ rr.status.Message = lastReconcile.result.Message

C4_AutoRRRunsOnce ==
    (rr.exists /\ AutoTriggered(rr))
    => /\ engineCalls <= 1
       /\ (lastReconcile.path = "run" /\ lastReconcile.written)
          => /\ rr.status.Phase \in {"Completed", "Failed"}
             /\ ~lastReconcile.Requeue
             /\ lastReconcile.RequeueAfter = 0

\* C5: the first reconcile of an RR whose phase is empty or Pending makes the
\* phase Running when intervalSeconds = 0 and Active when intervalSeconds > 0,
\* sets startTime and message, does not invoke the engine and requeues
\* immediately.
C5_FirstReconcilePhase ==
    [][ ( /\ rr.exists
          /\ rr.status.Phase \in {"", "Pending"}
          /\ lastReconcile'.path = "init"
          /\ lastReconcile'.written )
        => /\ rr'.status.Phase = IF rr.spec.IntervalSeconds = 0 THEN "Running" ELSE "Active"
           /\ rr'.status.StartTime = now
           /\ rr'.status.Message # ""
           /\ engineCalls' = engineCalls
           /\ rr'.status.RunCount = rr.status.RunCount
           /\ rr'.status.TotalPodsEvicted = rr.status.TotalPodsEvicted
           /\ lastReconcile'.Requeue
           /\ lastReconcile'.RequeueAfter = 0 ]_vars

\* a reconcile while NextRunTime lies in the future does not invoke the engine,
\* changes no status field and requeues for NextRunTime
WaitIsNoOp ==
    ( /\ rr.exists /\ rr'.exists
      /\ rr.status.NextRunTime # NilTime
      /\ now < rr.status.NextRunTime )
    => /\ engineCalls' = engineCalls
       /\ rr' = rr
       /\ lastReconcile' # lastReconcile
          => /\ lastReconcile'.path = "wait"
             /\ lastReconcile'.RequeueAfter = rr.status.NextRunTime - now

\* the interval the reconciler schedules with: intervalSeconds, or 60 seconds
\* when intervalSeconds is below 30
ScheduledInterval(spec) ==
    IF spec.IntervalSeconds >= 30 THEN spec.IntervalSeconds ELSE 60

C8_SettleAccounting ==
    [][ (rr.exists /\ engineCalls' = engineCalls + 1 /\ lastReconcile'.written)
        => /\ rr'.status.LastEvictedCount = lastReconcile'.result.PodsEvicted
           /\ rr'.status.TotalPodsEvicted
                 = rr.status.TotalPodsEvicted + lastReconcile'.result.PodsEvicted
           /\ rr'.status.RunCount = rr.status.RunCount + 1
           /\ rr'.status.LastRunTime = now' ]_vars

\* C8's case: a second tick that ended with an engine error after evicting a
\* pod has been settled on top of a first tick that evicted pods
C8_Witness ==
    /\ SettledRun
    /\ lastReconcile.result.Error # NoError
    /\ lastReconcile.result.PodsEvicted > 0
    /\ rr.status.RunCount = 2
    /\ rr.status.TotalPodsEvicted > rr.status.LastEvictedCount

\* C9: after every settled engine tick, the status field totalCandidates equals
\* the totalCandidates the engine returned for that tick.
C9_TotalCandidatesRecorded ==
    SettledRun => rr.status.TotalPods = lastReconcile.result.TotalPods

\* C10: across any sequence of reconciles of the same RR (failed status writes,
\* engine errors and cancelled ticks included), the persisted runCount and
\* podsEvictedTotal never decrease.
C10_CountersMonotone ==
    [][ (rr.exists /\ rr'.exists)
        => /\ rr'.status.RunCount >= rr.status.RunCount
           /\ rr'.status.TotalPodsEvicted >= rr.status.TotalPodsEvicted ]_vars

\* C10's case: after a settled tick that evicted pods, a cancelled tick whose
\* status write failed
C10_Witness ==
    /\ rr.exists
    /\ lastReconcile.path = "run"
    /\ ~lastReconcile.written
    /\ lastReconcile.result.Message = "Rebalance interrupted"
    /\ engineCalls = 2
    /\ rr.status.RunCount = 1
    /\ rr.status.TotalPodsEvicted > 0

\* C11: in every reachable RR status, podsEvictedTotal >= podsEvictedLast >= 0.
C11_TotalCoversLast ==
    rr.exists => /\ rr.status.TotalPodsEvicted >= rr.status.LastEvictedCount
                 /\ rr.status.LastEvictedCount >= 0

\* C11's case: two ticks have been settled, the first evicted pods, and the last
\* evicted some as well
C11_Witness ==
    /\ SettledRun
    /\ rr.status.RunCount = 2
    /\ rr.status.LastEvictedCount > 0
    /\ rr.status.TotalPodsEvicted > rr.status.LastEvictedCount

\* a settled tick, as a step: the engine was invoked and the status write succeeded
SettledTickStep ==
    /\ rr.exists
    /\ engineCalls' = engineCalls + 1
    /\ lastReconcile'.path = "run"
    /\ lastReconcile'.written

C13_OneShotErrorFails ==
    (SettledRun /\ rr.spec.IntervalSeconds = 0 /\ lastReconcile.result.Error # NoError)
    => /\ rr.status.Phase = "Failed"
       /\ rr.status.CompletionTime # NilTime
       /\ rr.status.Message = lastReconcile.result.Error
       /\ ~lastReconcile.Requeue
       /\ lastReconcile.RequeueAfter = 0

(***************************************************************************)
(* Claims about the engine, checked under SpecEngine.                      *)
(***************************************************************************)
\* the names of the listed nodes that are Ready and not cordoned
RetainedNames ==
    { snapshot.Nodes[i].Name :
        i \in { k \in 1..Len(snapshot.Nodes) :
                  snapshot.Nodes[k].Ready /\ ~snapshot.Nodes[k].Unschedulable } }

\* positions in the candidate list, and in the plan, of the pods on node n
CandidatesOn(n) == { i \in 1..Len(tick.candidates) : tick.candidates[i].NodeName = n }
MarkedOn(n) == { i \in 1..Len(tick.run.plan) : tick.run.plan[i].NodeName = n }

\* the rules of nodeTargets whose selector pairs all appear in n's labels
MatchingRules(n) ==
    LET labels == (CHOOSE i \in 1..Len(snapshot.Nodes) : snapshot.Nodes[i].Name = n) IN
    { r \in 1..Len(request.NodeTargets) :
        \A k \in DOMAIN request.NodeTargets[r].NodeSelector :
           /\ k \in DOMAIN snapshot.Nodes[labels].Labels
           /\ snapshot.Nodes[labels].Labels[k] = request.NodeTargets[r].NodeSelector[k] }

\* cap(n): the cap of the first matching rule, 0 when no rule matches,
\* floor(|P| / |N|) when there are no rules
CapOf(n) ==
    IF Len(request.NodeTargets) = 0
    THEN Len(tick.candidates) \div Cardinality(RetainedNames)
    ELSE IF MatchingRules(n) = {} THEN 0
    ELSE request.NodeTargets[CHOOSE r \in MatchingRules(n) :
                                \A q \in MatchingRules(n) : r <= q].TargetPodsPerNode

\* max(0, count(n) - cap(n) - 1)
ExcessOf(n) ==
    IF Cardinality(CandidatesOn(n)) - CapOf(n) - 1 > 0
    THEN Cardinality(CandidatesOn(n)) - CapOf(n) - 1
    ELSE 0

\* C14: for every snapshot and every retained node n, the number of pods of n in
\* the plan is exactly max(0, count(n) - cap(n) - 1): a node with count(n) <=
\* cap(n) + 1 contributes nothing, a touched node is left with exactly cap(n) + 1
\* candidates, and if count(n) <= cap(n) + 1 for every node the plan is empty and
\* no eviction is issued.
C14_PlanTakesExcess ==
    (tick.done /\ tick.planned)
    => /\ \A n \in RetainedNames :
             /\ Cardinality(MarkedOn(n)) = ExcessOf(n)
             /\ Cardinality(CandidatesOn(n)) <= CapOf(n) + 1 => MarkedOn(n) = {}
             /\ MarkedOn(n) # {}
                => Cardinality(CandidatesOn(n)) - Cardinality(MarkedOn(n)) = CapOf(n) + 1
       /\ (\A n \in RetainedNames : Cardinality(CandidatesOn(n)) <= CapOf(n) + 1)
          => /\ tick.run.plan = <<>>
             /\ tick.run.attempted = <<>>
             /\ tick.run.created = <<>>

\* C14's case: a tick planned with one node at least two over its cap + 1 and
\* another node holding exactly cap + 1 candidates
C14_Witness ==
    /\ tick.done
    /\ tick.planned
    /\ \E n, m \in RetainedNames :
          /\ Cardinality(MarkedOn(n)) >= 2
          /\ Cardinality(CandidatesOn(m)) > 0
          /\ Cardinality(CandidatesOn(m)) = CapOf(m) + 1
          /\ MarkedOn(m) = {}

\* C15: for every node contributing to the plan, the pods marked on it are
\* exactly excess(n) of its candidates, those with the newest creation
\* timestamps: no unmarked candidate on the node is strictly newer than a marked
\* one.
C15_NewestFirst ==
    (tick.done /\ tick.planned)
    => \A n \in RetainedNames :
          MarkedOn(n) # {}
          => /\ Cardinality(MarkedOn(n)) = ExcessOf(n)
             /\ \A i \in MarkedOn(n) :
                   \E j \in CandidatesOn(n) : tick.candidates[j] = tick.run.plan[i]
             /\ \A i \in MarkedOn(n), j \in CandidatesOn(n) :
                   (\A k \in MarkedOn(n) : tick.run.plan[k].Name # tick.candidates[j].Name)
                   => tick.candidates[j].CreationTimestamp
                         <= tick.run.plan[i].CreationTimestamp

\* C15's case: a node with a marked pod, an unmarked pod created at the same
\* time as a marked one, and an unmarked older pod
C15_Witness ==
    /\ tick.done
    /\ tick.planned
    /\ \E n \in RetainedNames :
          \E i \in MarkedOn(n), j, k \in CandidatesOn(n) :
             /\ \A m \in MarkedOn(n) :
                   /\ tick.run.plan[m].Name # tick.candidates[j].Name
                   /\ tick.run.plan[m].Name # tick.candidates[k].Name
             /\ tick.candidates[j].CreationTimestamp = tick.run.plan[i].CreationTimestamp
             /\ tick.candidates[k].CreationTimestamp < tick.run.plan[i].CreationTimestamp

C17_NotEnoughNodes ==
    (tick.done /\ tick.io.listNodesOk /\ Cardinality(RetainedNames) < 2)
    => /\ tick.run.plan = <<>>
       /\ tick.run.attempted = <<>>
       /\ tick.run.created = <<>>
       /\ tick.run.result.PodsEvicted = 0
       /\ tick.run.result.Error = NoError
       /\ tick.run.result.Message = "Not enough nodes for rebalancing (need at least 2)"

\* C17's case: one retained node carrying three or more labelled pods, a second
\* node Ready but cordoned, and a rule that caps every node at 0
C17_Witness ==
    /\ tick.done
    /\ tick.io.listNodesOk
    /\ Cardinality(RetainedNames) = 1
    /\ \E i \in 1..Len(snapshot.Nodes) :
          snapshot.Nodes[i].Ready /\ snapshot.Nodes[i].Unschedulable
    /\ request.NodeTargets = <<HwY, AnyNode(0)>>
    /\ \E n \in RetainedNames :
          Cardinality({ i \in 1..Len(snapshot.Pods) :
                          /\ snapshot.Pods[i].NodeName = n
                          /\ snapshot.Pods[i].Namespace = "default" }) >= 3

TickCancelled == tick.run.result.Message = "Rebalance interrupted"

\* C19: when dryRun is true a tick creates no eviction sub-resource and reports
\* evicted equal to the number of planned pods it walked: the full plan length
\* when not cancelled.
C19_DryRunEvictsNothing ==
    (tick.done /\ request.DryRun)
    => /\ tick.run.created = <<>>
       /\ tick.run.attempted = <<>>
       /\ ~TickCancelled => tick.run.result.PodsEvicted = Len(tick.run.plan)
       /\ TickCancelled
          => /\ tick.run.result.PodsEvicted = (tick.run.waits + 1) * request.BatchSize
             /\ tick.run.result.PodsEvicted < Len(tick.run.plan)

\* C19's case: an uncancelled dry run over a plan of three or more pods
C19_Witness ==
    /\ tick.done
    /\ request.DryRun
    /\ ~TickCancelled
    /\ Len(tick.run.plan) >= 3
    /\ tick.run.result.PodsEvicted = Len(tick.run.plan)

\* C20: in a non-dry-run tick that has a plan and is not cancelled, every entry of
\* the plan gets exactly one eviction attempt; a failed attempt does not stop
\* later pods from being attempted and is not counted, so result.evicted equals
\* the number of successful eviction creations and the tick returns no error
\* even if every attempt failed.
C20_FailedEvictionsSkipped ==
    (tick.done /\ tick.planned /\ ~request.DryRun /\ ~TickCancelled)
    => /\ tick.run.attempted = [i \in 1..Len(tick.run.plan) |-> tick.run.plan[i].Name]
       /\ \A i \in 1..Len(tick.run.created) :
             tick.run.created[i] \notin tick.io.evictFails
       /\ { tick.run.created[i] : i \in 1..Len(tick.run.created) }
             = { tick.run.attempted[i] : i \in 1..Len(tick.run.attempted) }
               \ tick.io.evictFails
       /\ tick.run.result.PodsEvicted = Len(tick.run.created)
       /\ tick.run.result.Error = NoError

\* C20's case: a plan of three or more pods whose first attempt in plan order
\* failed while later ones succeeded
C20_Witness ==
    /\ tick.done
    /\ ~request.DryRun
    /\ ~TickCancelled
    /\ Len(tick.run.plan) >= 3
    /\ tick.run.plan[1].Name \in tick.io.evictFails
    /\ tick.run.result.PodsEvicted = Len(tick.run.plan) - 1
    /\ tick.run.result.Error = NoError

\* the names of the first k entries of the plan
PlanPrefix(k) == [i \in 1..k |-> tick.run.plan[i].Name]

\* what one slice holds: spec.BatchSize pods, 5 when the field is 0
SliceSize == IF request.BatchSize > 0 THEN request.BatchSize ELSE 5

\* C21: if the cancel signal fires while the engine is in an inter-batch wait (here
\* the first one), the wait ends at once, no pod of a later slice is attempted,
\* and the engine returns the evicted count so far, the number of candidates,
\* the message "Rebalance interrupted" and the cancellation error; a tick with
\* no wait, or with no cancel signal, is not interrupted.
C21_CancelDuringWait ==
    (tick.done /\ tick.planned)
    => /\ TickCancelled
          <=> (tick.io.cancelAtWait = 1 /\ Len(tick.run.plan) > SliceSize)
       /\ TickCancelled
          => /\ tick.run.waits = 0
             /\ tick.run.elapsed = 0
             /\ tick.run.result.Error = "context canceled"
             /\ tick.run.result.TotalPods = Len(tick.candidates)
             /\ request.DryRun
                => /\ tick.run.attempted = <<>>
                   /\ tick.run.result.PodsEvicted = SliceSize
             /\ ~request.DryRun
                => /\ tick.run.attempted = PlanPrefix(SliceSize)
                   /\ tick.run.result.PodsEvicted = Len(tick.run.created)
                   /\ tick.run.created
                         = SelectSeq(PlanPrefix(SliceSize),
                                     LAMBDA q : q \notin tick.io.evictFails)

\* C21's case: a plan of three or more pods in slices of one, cancelled in the
\* wait after the first slice, whose eviction went through
C21_Witness ==
    /\ tick.done
    /\ tick.planned
    /\ TickCancelled
    /\ ~request.DryRun
    /\ request.BatchSize = 1
    /\ Len(tick.run.plan) >= 3
    /\ tick.run.attempted = <<tick.run.plan[1].Name>>
    /\ tick.run.result.PodsEvicted = 1

(***************************************************************************)
(* Claims about the node watcher's handling of single events, checked      *)
(* under SpecWatcher.                                                      *)
(***************************************************************************)
\* the step is the watcher handling the queued key n
Handled(n) == n \in queue /\ n \notin queue'

\* the step triggered for node n with the given reason: one more attempt, which
\* creates exactly one auto-RR carrying the reason and the node's name when the
\* watcher is outside its cooldown and the create call goes through, and none
\* inside the cooldown
TriggeredFor(n, reason) ==
    /\ Len(attempts') = Len(attempts) + 1
    /\ attempts'[Len(attempts')].reason = reason
    /\ attempts'[Len(attempts')].node = n
    /\ InCooldown => attempts'[Len(attempts')].outcome = "skipped"
    /\ ~InCooldown => attempts'[Len(attempts')].outcome \in {"created", "failed"}
    /\ attempts'[Len(attempts')].outcome # "created" => autoRRs' = autoRRs
    /\ attempts'[Len(attempts')].outcome = "created"
       => /\ Len(autoRRs') = Len(autoRRs) + 1
          /\ SubSeq(autoRRs', 1, Len(autoRRs)) = autoRRs
          /\ AutoTriggered(autoRRs'[Len(autoRRs')])
          /\ Label(autoRRs'[Len(autoRRs')], "kore.boring.io/trigger-reason") = reason
          /\ Label(autoRRs'[Len(autoRRs')], "kore.boring.io/trigger-node") = n

\* the step triggered nothing
NotTriggered == attempts' = attempts /\ autoRRs' = autoRRs

\* C22: a delete event for any node whose name is in the known map, whatever
\* readiness was last observed for it, triggers an auto-rebalance with reason
\* "node-removed" (an auto-RR is created when outside the cooldown), and the name
\* is removed from known.
C22_DeleteOfKnownTriggers ==
    [][\A n \in NodeNames :
          (Handled(n) /\ nodes[n] = "absent" /\ knownNodes[n] # "none")
          => /\ TriggeredFor(n, "node-removed")
             /\ knownNodes'[n] = "none"]_vars

\* C23: a readiness-transition update event for a node whose name is already in
\* known only updates known[n] and never creates an auto-RR; in particular a known
\* node flapping NotReady -> Ready any number of times produces no trigger.
C23_UpdateOfKnownNeverTriggers ==
    [][\A n \in NodeNames :
          (Handled(n) /\ nodes[n] # "absent" /\ knownNodes[n] # "none")
          => /\ NotTriggered
             /\ knownNodes'[n] = IF nodes[n] = "ready" THEN "true" ELSE "false"]_vars

StatusWriteFailedStep ==
    /\ lastReconcile' # lastReconcile \/ engineCalls' # engineCalls
    /\ lastReconcile'.path \in {"init", "run"}
    /\ ~lastReconcile'.written

\* C26: when a status write fails (the initialising write or the settle write
\* after an engine tick), the reconcile returns the underlying error together
\* with a 5-second requeue, and the persisted status is left as it was before
\* that reconcile.
C26_StatusWriteFailure ==
    [][StatusWriteFailedStep
       => /\ lastReconcile'.err # NoError
          /\ lastReconcile'.RequeueAfter = 5
          /\ ~lastReconcile'.Requeue
          /\ rr' = rr]_vars

\* C26's case: the settle write failed after a tick that evicted pods, and the
\* status still shows no run
C26_Witness ==
    /\ rr.exists
    /\ lastReconcile.path = "run"
    /\ ~lastReconcile.written
    /\ lastReconcile.err # NoError
    /\ lastReconcile.RequeueAfter = 5
    /\ lastReconcile.result.PodsEvicted > 0
    /\ engineCalls = 1
    /\ rr.status.RunCount = 0
    /\ rr.status.LastRunTime = NilTime

(***************************************************************************)
(* Claims about concurrent node-event handlers, checked under              *)
(* SpecConcurrentWatcher.                                                  *)
(***************************************************************************)
\* the handlers that passed their trigger rule and are inside
\* triggerRebalanceIfNeeded past its Lock
InTrigger == { n \in NodeNames : handler[n].pc \in {"check", "create", "record"} }

\* the handlers inside the critical section on the known map
InKnown == { n \in NodeNames : handler[n].pc = "known" }

\* C27: under any interleaving of node-event handlers running concurrently for
\* different nodes, the cooldown check and the update of lastAutoTrigger are
\* atomic (at most one handler is between the check and the update, and it
\* holds the lock), so two handlers that both pass their trigger rule at the
\* same time create at most one auto-RR within one cooldown window; and the
\* known map is read and written only by the handler that holds its lock.
C27_TriggerIsAtomic ==
    /\ [](/\ Cardinality(InTrigger) <= 1
          /\ \A n \in InTrigger : mu = n
          /\ mu # "free" => mu \in InTrigger
          /\ \A i, j \in 1..Len(autoRRs) :
                i < j => autoRRs[j].created - autoRRs[i].created >= Cooldown
          /\ Cardinality(InKnown) <= 1
          /\ \A n \in InKnown : nodesMu = n)
    /\ [][/\ knownNodes' # knownNodes => nodesMu \in InKnown
          /\ lastRebalanceTime' # lastRebalanceTime => mu \in InTrigger]_vars

\* C27's case: A and B both passed their trigger rule; A is past the cooldown
\* check and has created its auto-RR but not yet recorded the time, B waits for
\* the lock with the recorded time still letting it through
C27_Witness ==
    /\ handler["A"].pc = "record"
    /\ handler["B"].pc = "lockMu"
    /\ mu = "A"
    /\ Len(autoRRs) = 1
    /\ ~InCooldown

(***************************************************************************)
(* Claims about the engine's batches, checked under SpecEngine.            *)
(***************************************************************************)
\* ceil(a / b)
CeilDiv(a, b) == (a + b - 1) \div b

\* max(1, batchSize)
FloorOneBatchSize == IF request.BatchSize > 1 THEN request.BatchSize ELSE 1

\* the tick walked a plan to its end
WalkedWholePlan == tick.done /\ tick.planned /\ tick.run.plan # <<>> /\ ~TickCancelled

\* C28 as stated: the engine walks the plan in consecutive slices of size max(1,
\* batchSize): at most max(1, batchSize) eviction attempts occur between two
\* consecutive inter-batch waits, exactly ceil(|plan| / max(1, batchSize)) - 1
\* waits occur in an uncancelled tick, and there is no wait after the last slice.
C28_SlicesOfMaxOneBatchSize ==
    /\ WalkedWholePlan
       => tick.run.waits = CeilDiv(Len(tick.run.plan), FloorOneBatchSize) - 1
    /\ (tick.done /\ tick.planned /\ TickCancelled /\ ~request.DryRun)
       => Len(tick.run.attempted) <= (tick.run.waits + 1) * FloorOneBatchSize

\* C28, amended: the engine walks the plan in consecutive slices of batchSize
\* pods when batchSize > 0 and of 5 pods otherwise: every slice before a wait
\* holds exactly that many attempts, exactly ceil(|plan| / slice size) - 1 waits
\* occur in an uncancelled tick, there is no wait after the last slice, and a
\* plan that fits one slice is walked without any wait.
C28_SlicesOfBatchSize ==
    /\ WalkedWholePlan
       => /\ tick.run.waits = CeilDiv(Len(tick.run.plan), SliceSize) - 1
          /\ Len(tick.run.plan) <= SliceSize => tick.run.waits = 0
          /\ tick.run.waits * SliceSize < Len(tick.run.plan)
          /\ ~request.DryRun => Len(tick.run.attempted) = Len(tick.run.plan)
    /\ (tick.done /\ tick.planned /\ TickCancelled)
       => /\ Len(tick.run.plan) > (tick.run.waits + 1) * SliceSize
          /\ ~request.DryRun
             => Len(tick.run.attempted) = (tick.run.waits + 1) * SliceSize

\* C28's case: batchSize 0 and a plan of three pods walked as one slice without a
\* wait
C28_Witness ==
    /\ WalkedWholePlan
    /\ request.BatchSize = 0
    /\ ~request.DryRun
    /\ Len(tick.run.plan) = 3
    /\ Len(tick.run.attempted) = 3
    /\ tick.run.waits = 0

\* C29: the duration of each inter-batch wait is max(0, batchIntervalSeconds)
\* seconds, so a tick spends that long in each of its completed waits; in
\* particular with batchIntervalSeconds = 0 the engine proceeds from one slice to
\* the next without waiting.
C29_WaitIsBatchInterval ==
    (tick.done /\ tick.planned)
    => tick.run.elapsed
          = tick.run.waits * (IF request.BatchIntervalSeconds > 0
                              THEN request.BatchIntervalSeconds ELSE 0)

\* count(n) - cap(n)
DeltaOf(n) == Cardinality(CandidatesOn(n)) - CapOf(n)

\* C30: the eviction plan is the concatenation of the per-node marked pods with
\* the nodes taken in non-increasing order of count(n) - cap(n): the pods of one
\* node are contiguous and newest first; within a tick the eviction attempts are
\* issued one at a time in exactly that plan order, so the attempted pods form
\* a prefix of the plan.
C30_PlanOrder ==
    (tick.done /\ tick.planned)
    => /\ \A n \in RetainedNames : Cardinality(MarkedOn(n)) = ExcessOf(n)
       /\ \A i \in 1..Len(tick.run.plan) : tick.run.plan[i].NodeName \in RetainedNames
       /\ \A i, j \in 1..Len(tick.run.plan) :
             i < j
             => /\ DeltaOf(tick.run.plan[i].NodeName) >= DeltaOf(tick.run.plan[j].NodeName)
                /\ tick.run.plan[i].NodeName = tick.run.plan[j].NodeName
                   => /\ tick.run.plan[i].CreationTimestamp
                            >= tick.run.plan[j].CreationTimestamp
                      /\ \A k \in i..j :
                            tick.run.plan[k].NodeName = tick.run.plan[i].NodeName
       /\ Len(tick.run.attempted) <= Len(tick.run.plan)
       /\ tick.run.attempted = PlanPrefix(Len(tick.run.attempted))
       /\ \A i \in 1..Len(tick.run.created) :
             \E j \in 1..Len(tick.run.attempted) :
                /\ tick.run.attempted[j] = tick.run.created[i]
                /\ j >= i

\* C30's case: a plan over two nodes with different count - cap, two pods of
\* different age from the first node, all attempted in plan order; before the
\* sort the node that comes last stood ahead of the node that comes first
C30_Witness ==
    /\ tick.done
    /\ tick.planned
    /\ ~request.DryRun
    /\ Len(tick.run.plan) >= 3
    /\ Len(tick.run.attempted) = Len(tick.run.plan)
    /\ tick.run.plan[1].NodeName = tick.run.plan[2].NodeName
    /\ tick.run.plan[1].CreationTimestamp > tick.run.plan[2].CreationTimestamp
    /\ tick.run.plan[Len(tick.run.plan)].NodeName # tick.run.plan[1].NodeName
    /\ DeltaOf(tick.run.plan[1].NodeName)
          > DeltaOf(tick.run.plan[Len(tick.run.plan)].NodeName)
    /\ tick.tie.nodes[tick.run.plan[Len(tick.run.plan)].NodeName]
          > tick.tie.nodes[tick.run.plan[1].NodeName]

(***************************************************************************)
(* Further claims about the node watcher, checked under SpecWatcher.       *)
(***************************************************************************)
\* C31: lastAutoTrigger is set only on a successful auto-RR create: a trigger
\* suppressed by the cooldown or a failed create leaves it unchanged, so after a
\* failed create the next qualifying event is not suppressed by that attempt.
C31_TriggerTimeOnlyOnCreate ==
    /\ [][/\ lastRebalanceTime' # lastRebalanceTime
             => /\ Len(attempts') = Len(attempts) + 1
                /\ attempts'[Len(attempts')].outcome = "created"
                /\ Len(autoRRs') = Len(autoRRs) + 1
                /\ lastRebalanceTime' = now
          /\ (Len(attempts') = Len(attempts) + 1
                /\ attempts'[Len(attempts')].outcome \in {"skipped", "failed"})
             => /\ lastRebalanceTime' = lastRebalanceTime
                /\ autoRRs' = autoRRs]_vars
    /\ [](\A i \in 1..(Len(attempts) - 1) :
             attempts[i].outcome = "failed"
             => /\ attempts[i + 1].last = attempts[i].last
                /\ attempts[i + 1].outcome # "skipped")

\* C31's case: a create call failed and the next trigger, less than one cooldown
\* later, created the auto-RR
C31_Witness ==
    /\ Len(attempts) >= 2
    /\ attempts[1].outcome = "failed"
    /\ attempts[2].outcome = "created"
    /\ attempts[2].time - attempts[1].time < Cooldown
    /\ attempts[2].time > attempts[1].time
    /\ Len(autoRRs) = 1
    /\ lastRebalanceTime = attempts[2].time

\* C32: the initial create events for nodes that were present in the bootstrap list
\* at startup never create an auto-RR, whatever their readiness; if the bootstrap
\* list fails, known starts empty and the initial events of already-present ready
\* nodes are treated as node additions.
C32_BootstrapSuppressesInitialEvents ==
    [][\A n \in NodeNames :
          (Handled(n) /\ nodes[n] # "absent")
          => /\ initialEvent[n] = "listed" => NotTriggered
             /\ initialEvent[n] = "unlisted"
                => /\ knownNodes[n] = "none"
                   /\ nodes[n] = "ready" => TriggeredFor(n, "node-added")
                   /\ nodes[n] = "notready" => NotTriggered]_vars

(***************************************************************************)
(* Claims about pods on nodes the engine does not retain, checked under    *)
(* SpecEngine.                                                             *)
(***************************************************************************)
\* the pods of the snapshot the request selects (labelled, running, outside the
\* system namespaces) that sit on a node outside the retained set
OffRetained ==
    { i \in 1..Len(snapshot.Pods) :
        /\ snapshot.Pods[i].Namespace \notin {"kube-system", "kube-public", "kube-node-lease"}
        /\ snapshot.Pods[i].NodeName \notin RetainedNames }

\* C33: a pod scheduled on a node that is not in the retained set (not Ready,
\* cordoned, or absent from the node list) is never placed in the eviction plan,
\* even though it is counted in the candidate total used for totalCandidates
\* and for the floor(|P| / |N|) fallback cap.
C33_OffRetainedPodsCountedNotPlanned ==
    (tick.done /\ tick.planned)
    => /\ \A i \in OffRetained :
             /\ \A j \in 1..Len(tick.run.plan) :
                   tick.run.plan[j].Name # snapshot.Pods[i].Name
             /\ \A j \in 1..Len(tick.run.attempted) :
                   tick.run.attempted[j] # snapshot.Pods[i].Name
             /\ \E j \in 1..Len(tick.candidates) : tick.candidates[j] = snapshot.Pods[i]
       /\ \A j \in 1..Len(tick.run.plan) : tick.run.plan[j].NodeName \in RetainedNames
       /\ tick.run.result.TotalPods = Len(tick.candidates)
       /\ Len(request.NodeTargets) = 0
          => \A k \in 1..Len(tick.nodeCounts) :
                /\ tick.nodeCounts[k].TargetPods
                      = Len(tick.candidates) \div Cardinality(RetainedNames)
                /\ Cardinality(MarkedOn(tick.nodeCounts[k].NodeName))
                      = IF tick.nodeCounts[k].PodCount
                              - Len(tick.candidates) \div Cardinality(RetainedNames) - 1 > 0
                        THEN tick.nodeCounts[k].PodCount
                                - Len(tick.candidates) \div Cardinality(RetainedNames) - 1
                        ELSE 0

\* the candidates on retained nodes
OnRetained == { j \in 1..Len(tick.candidates) : tick.candidates[j].NodeName \in RetainedNames }

\* C33's case: no node targets, two pods on a node that is missing from the node
\* list; counting them lifts the fallback cap, so that the plan is shorter than
\* it would be with the pods of the retained nodes alone, and none of them is
\* planned
C33_Witness ==
    /\ tick.done
    /\ tick.planned
    /\ Len(request.NodeTargets) = 0
    /\ Len(snapshot.Nodes) = 2
    /\ Cardinality(OffRetained) = 2
    /\ tick.run.result.TotalPods = Cardinality(OnRetained) + 2
    /\ Len(tick.candidates) \div 2 > Cardinality(OnRetained) \div 2
    /\ \E n \in RetainedNames :
          Cardinality(CandidatesOn(n)) - Cardinality(OnRetained) \div 2 - 1
             > Cardinality(MarkedOn(n))

(***************************************************************************)
(* Claims about the reconciler's counters and progress, checked under      *)
(* SpecRR.                                                                 *)
(***************************************************************************)
\* C34: in every reachable state with dryRun false, the persisted podsEvictedTotal
\* of an RR equals the number of eviction creations that succeeded across all
\* engine invocations made for it, and the persisted runCount equals the number
\* of engine invocations; a failed settle write causes neither evictions that
\* are missing from the counters nor a tick that is executed again without
\* being counted.
C34_CountersMatchEvictions ==
    (rr.exists /\ ~rr.spec.DryRun)
    => /\ rr.status.TotalPodsEvicted = evictionsCreated
       /\ rr.status.RunCount = engineCalls

\* a result of Reconcile that schedules a further reconcile: an immediate
\* requeue, a requeue after a delay, or an error (requeued with backoff)
SchedulesNext(res) == res.Requeue \/ res.RequeueAfter > 0 \/ res.err # NoError

\* C35: for an interval request that is never deleted, with fair requeues, status
\* writes that eventually succeed and engine runs that return, every result of
\* Reconcile schedules a further reconcile, so the engine is invoked again and
\* again and runCount keeps growing (here: up to the bound MaxRuns).
C35_RunsAgainAndAgain ==
    /\ [](lastReconcile.path # "none" => SchedulesNext(lastReconcile))
    /\ \A k \in 0..(MaxRuns - 1) :
          (rr.status.RunCount = k) ~> (rr.status.RunCount = k + 1 /\ engineCalls > k)

\* the request has settled MaxRuns runs, one more engine run having lost its
\* status write, and the last result asks for a requeue after the interval
C35_Witness ==
    /\ rr.exists
    /\ rr.status.RunCount = MaxRuns
    /\ engineCalls = MaxRuns + MaxWriteFailures
    /\ lastReconcile.path = "run"
    /\ lastReconcile.RequeueAfter = Interval(rr.spec)

====
